---- MODULE Spec2Model ----
(***************************************************************************)
(* A model of bittensor_network_switcher.py: the class                     *)
(* BittensorNetworkSwitcher (read_config, write_config, switch_network,    *)
(* check_current_network, interactive_mode) and main().                    *)
(*                                                                         *)
(* The config file is modelled as a sequence of cells.  A JSON object is   *)
(* the cells of its key/value pairs, in file order, followed by one        *)
(* closing cell; a text whose cells are not of that shape is not a JSON    *)
(* object (an unfinished write, an overwritten longer text, hand-edited    *)
(* garbage).  One more cell stands for a JSON document that is valid but   *)
(* not an object (an array such as []).                                    *)
(***************************************************************************)
EXTENDS Naturals, Sequences, FiniteSets, TLC

VARIABLES
    disk,        \* the config file: [exists, text]
    pc,          \* per invocation: the place in the code
    args,        \* per invocation: what parse_args returned
    trace,       \* per invocation: the calls main itself has made (lines 93, 95, 97)
    op,          \* per invocation: the operation in progress or last finished
    req,         \* per invocation: the parameter of switch_network
    config,      \* per invocation: the local variable config
    pre,         \* per invocation: the file as it was when the operation was called
    line,        \* per invocation: the line input() returned last
    out,         \* per invocation: the last message printed
    res,         \* per invocation: how the operation ended
    exitcode,    \* per invocation: the exit status once it is over
    switched,    \* some switch_network call has run to its end
    written,     \* the program has opened the file for writing
    lastWriter   \* the invocation that wrote to the file last

vars == <<disk, pc, args, trace, op, req, config, pre, line, out, res,
          exitcode, switched, written, lastWriter>>

-----------------------------------------------------------------------------
(* Bounds of the model *)

\* the longest list of key/value pairs in a file that exists before the program runs
MaxPairs == 2

\* the most blanks typed before, and after, the text of a line at the prompt
MaxPad == 1

-----------------------------------------------------------------------------
(* Values *)

Procs == {1, 2}

NotSet == "Not set"

Valid == {"mainnet", "testnet"}

\* what a caller may pass to switch_network
Requests == Valid \cup {"invalidnet", NotSet}

PairCell(k, v) == [t |-> "pair", k |-> k, v |-> v]

CloseCell == [t |-> "close", k |-> "", v |-> ""]

ArrayCell == [t |-> "array", k |-> "", v |-> ""]

\* the key/value pairs a file may hold before the program runs
InitPairs ==
    {PairCell("network", v) : v \in {"mainnet", "testnet", NotSet}}
        \cup {PairCell("extra", v) : v \in {"keepme", "other"}}

SeqsUpTo(S, n) == UNION {[1..m -> S] : m \in 0..n}

InitTexts ==
    {body \o tail : body \in SeqsUpTo(InitPairs, MaxPairs),
                    tail \in {<<>>, <<CloseCell>>}}
        \cup {<<ArrayCell>>}

Missing == [exists |-> FALSE, text |-> <<>>]

File(text) == [exists |-> TRUE, text |-> text]

InitDisks == {Missing} \cup {File(t) : t \in InitTexts}

Blanks(n) == [i \in 1..n |-> " "]

\* what the user types between the blanks: nothing, a choice, something else
Typed ==
    {<<>>, <<"1">>, <<"2">>, <<"3">>, <<"4">>, <<"x">>, <<"1", "2">>,
     <<"1", " ", "2">>}

\* the lines input() may return
Lines == {Blanks(i) \o t \o Blanks(j) : i \in 0..MaxPad, j \in 0..MaxPad, t \in Typed}

NoLine == <<"none">>

NoOut == <<"none">>

NoConfig == [kind |-> "none", items |-> <<>>]

Dict(items) == [kind |-> "dict", items |-> items]

ListValue == [kind |-> "list", items |-> <<>>]

NoArgs == [network |-> "none", check |-> FALSE]

-----------------------------------------------------------------------------
(* JSON and dict helpers *)

\* the text is one complete JSON object
IsObjectText(t) ==
    /\ Len(t) >= 1
    /\ t[Len(t)].t = "close"
    /\ \A i \in 1..(Len(t) - 1) : t[i].t = "pair"

\* the text is valid JSON of another type
IsArrayText(t) == t = <<ArrayCell>>

HasKey(items, k) == \E i \in 1..Len(items) : items[i].k = k

\* d[k] = v on a Python dict: an existing key keeps its place
DictSet(items, k, v) ==
    IF HasKey(items, k)
    THEN [i \in 1..Len(items) |->
            IF items[i].k = k THEN PairCell(k, v) ELSE items[i]]
    ELSE Append(items, PairCell(k, v))

\* d.get(k, default)
Get(items, k, default) ==
    IF HasKey(items, k)
    THEN items[CHOOSE i \in 1..Len(items) : items[i].k = k].v
    ELSE default

RECURSIVE PairsToDict(_)
\* the dict json.load builds from an object's pairs: a repeated key keeps its last value
PairsToDict(cells) ==
    IF cells = <<>> THEN <<>>
    ELSE LET n == Len(cells)
         IN DictSet(PairsToDict(SubSeq(cells, 1, n - 1)), cells[n].k, cells[n].v)

json_load(t) ==
    IF IsArrayText(t) THEN ListValue
    ELSE Dict(PairsToDict(SubSeq(t, 1, Len(t) - 1)))

json_dump(items) == items \o <<CloseCell>>

DefaultConfig == Dict(<<PairCell("network", NotSet)>>)

read_config(d) ==
    IF ~d.exists THEN DefaultConfig
    ELSE IF IsObjectText(d.text) \/ IsArrayText(d.text) THEN json_load(d.text)
    ELSE DefaultConfig

\* a read_config that writes the default it falls back on
DiskAfterRead_Create(d) ==
    IF d.exists THEN d ELSE File(<<PairCell("network", NotSet), CloseCell>>)

\* read_config only reads: the file after it is the file before it
DiskAfterRead(d) == d

\* open(path, 'w'): the file is created or emptied
DiskAfterOpen(d) == File(<<>>)

\* a write of text t at offset 0 of a file being t2: what lies beyond t stays
Overlay(old, t) == t \o SubSeq(old, Len(t) + 1, Len(old))

\* a switch_network that validates nothing
ValidNetwork_Any(n) == TRUE

ValidNetwork(n) == n \in Valid

\* a switch_network that writes a fresh config instead of the one it read
SetNetwork_Fresh(items, n) == <<PairCell("network", n)>>

\* a switch_network that forgets the assignment
SetNetwork_Noop(items, n) == items

SetNetwork(items, n) == DictSet(items, "network", n)

RECURSIVE lstrip(_)
lstrip(s) == IF s # <<>> /\ Head(s) = " " THEN lstrip(Tail(s)) ELSE s

RECURSIVE rstrip(_)
rstrip(s) ==
    IF s # <<>> /\ s[Len(s)] = " " THEN rstrip(SubSeq(s, 1, Len(s) - 1)) ELSE s

strip(s) == rstrip(lstrip(s))

Choices == {<<"1">>, <<"2">>, <<"3">>, <<"4">>}

\* a main that tests --check before --network
DispatchTarget_CheckFirst(a) ==
    IF a.check THEN "check_current_network"
    ELSE IF a.network # "none" THEN "switch_network"
    ELSE "interactive_mode"

\* main's if / elif / else
DispatchTarget(a) ==
    IF a.network # "none" THEN "switch_network"
    ELSE IF a.check THEN "check_current_network"
    ELSE "interactive_mode"

\* a loop whose last branch is the break
MenuTarget_ElseBreak(choice) ==
    IF choice = <<"1">> THEN "mainnet"
    ELSE IF choice = <<"2">> THEN "testnet"
    ELSE IF choice = <<"3">> THEN "check"
    ELSE "break"

\* the interactive loop's if / elif chain
MenuTarget(choice) ==
    IF choice = <<"1">> THEN "mainnet"
    ELSE IF choice = <<"2">> THEN "testnet"
    ELSE IF choice = <<"3">> THEN "check"
    ELSE IF choice = <<"4">> THEN "break"
    ELSE "invalid"

InLoop(p) == trace[p] = <<"interactive_mode">>

-----------------------------------------------------------------------------
Init ==
    /\ disk \in InitDisks
    /\ pc = [p \in Procs |-> "idle"]
    /\ args = [p \in Procs |-> NoArgs]
    /\ trace = [p \in Procs |-> <<>>]
    /\ op = [p \in Procs |-> "none"]
    /\ req = [p \in Procs |-> "none"]
    /\ config = [p \in Procs |-> NoConfig]
    /\ pre = [p \in Procs |-> Missing]
    /\ line = [p \in Procs |-> NoLine]
    /\ out = [p \in Procs |-> NoOut]
    /\ res = [p \in Procs |-> "none"]
    /\ exitcode = [p \in Procs |-> 0]
    /\ switched = FALSE
    /\ written = FALSE
    /\ lastWriter = 0

-----------------------------------------------------------------------------
(* How an operation or an invocation ends *)

\* where a call that returns normally goes back to: the prompt, or the end of main
ReturnPc(p) == IF InLoop(p) THEN "menu" ELSE "done"

\* the state an operation starts in
BeginOp(p, name, n, at) ==
    /\ op' = [op EXCEPT ![p] = name]
    /\ req' = [req EXCEPT ![p] = n]
    /\ pre' = [pre EXCEPT ![p] = disk]
    /\ config' = [config EXCEPT ![p] = NoConfig]
    /\ out' = [out EXCEPT ![p] = NoOut]
    /\ res' = [res EXCEPT ![p] = "running"]
    /\ pc' = [pc EXCEPT ![p] = at]

-----------------------------------------------------------------------------
(* main *)

\* parser.parse_args(): --network takes only the two choices
Main(p) ==
    /\ pc[p] = "idle"
    /\ \E n \in {"none", "mainnet", "testnet", "invalidnet"}, c \in BOOLEAN :
         IF n \in Valid \cup {"none"}
         THEN /\ args' = [args EXCEPT ![p] = [network |-> n, check |-> c]]
              /\ pc' = [pc EXCEPT ![p] = "dispatch"]
              /\ UNCHANGED <<out, exitcode>>
         ELSE /\ out' = [out EXCEPT ![p] = <<"usage_error">>]
              /\ exitcode' = [exitcode EXCEPT ![p] = 2]
              /\ pc' = [pc EXCEPT ![p] = "done"]
              /\ UNCHANGED args
    /\ UNCHANGED <<disk, trace, op, req, config, pre, line, res, switched,
                   written, lastWriter>>

\* if args.network: ... elif args.check: ... else: ...
Dispatch(p) ==
    /\ pc[p] = "dispatch"
    /\ LET target == DispatchTarget(args[p])
       IN /\ trace' = [trace EXCEPT ![p] = Append(@, target)]
          /\ IF target = "switch_network"
             THEN BeginOp(p, "switch", args[p].network, "sw_validate")
             ELSE IF target = "check_current_network"
             THEN BeginOp(p, "check", "none", "chk")
             ELSE /\ pc' = [pc EXCEPT ![p] = "menu"]
                  /\ UNCHANGED <<op, req, pre, config, out, res>>
    /\ UNCHANGED <<disk, args, line, exitcode, switched, written, lastWriter>>

\* switch_network(network) called on the class directly, with any string
DirectSwitch(p) ==
    /\ pc[p] = "idle"
    /\ \E n \in Requests : BeginOp(p, "switch", n, "sw_validate")
    /\ UNCHANGED <<disk, args, trace, line, exitcode, switched, written,
                   lastWriter>>

-----------------------------------------------------------------------------
(* switch_network *)

\* if network not in ['mainnet', 'testnet']: print(...); sys.exit(1)
SwValidate(p) ==
    /\ pc[p] = "sw_validate"
    /\ IF ValidNetwork(req[p])
       THEN /\ pc' = [pc EXCEPT ![p] = "sw_read"]
            /\ UNCHANGED <<out, res, exitcode>>
       ELSE /\ out' = [out EXCEPT ![p] = <<"invalid_network", req[p]>>]
            /\ res' = [res EXCEPT ![p] = "sysexit"]
            /\ exitcode' = [exitcode EXCEPT ![p] = 1]
            /\ pc' = [pc EXCEPT ![p] = "done"]
    /\ UNCHANGED <<disk, args, trace, op, req, config, pre, line, switched,
                   written, lastWriter>>

\* config = self.read_config(); config['network'] = network
\* (a list has no string index: TypeError, caught nowhere)
SwRead(p) ==
    /\ pc[p] = "sw_read"
    /\ disk' = DiskAfterRead(disk)
    /\ LET c == read_config(disk)
       IN IF c.kind = "dict"
          THEN /\ config' = [config EXCEPT ![p] = Dict(SetNetwork(c.items, req[p]))]
               /\ pc' = [pc EXCEPT ![p] = "sw_open"]
               /\ UNCHANGED <<res, exitcode>>
          ELSE /\ config' = [config EXCEPT ![p] = c]
               /\ res' = [res EXCEPT ![p] = "raised"]
               /\ exitcode' = [exitcode EXCEPT ![p] = 1]
               /\ pc' = [pc EXCEPT ![p] = "done"]
    /\ UNCHANGED <<args, trace, op, req, pre, line, out, switched, written,
                   lastWriter>>

\* write_config: with open(self.config_path, 'w') as f
SwOpen(p) ==
    /\ pc[p] = "sw_open"
    /\ disk' = DiskAfterOpen(disk)
    /\ written' = TRUE
    /\ pc' = [pc EXCEPT ![p] = "sw_dump"]
    /\ UNCHANGED <<args, trace, op, req, config, pre, line, out, res, exitcode,
                   switched, lastWriter>>

\* write_config: json.dump(config, f, indent=4) and the close that flushes it,
\* then the two prints and the return of switch_network
SwDump(p) ==
    /\ pc[p] = "sw_dump"
    /\ disk' = File(Overlay(disk.text, json_dump(config[p].items)))
    /\ lastWriter' = p
    /\ out' = [out EXCEPT ![p] = <<"success", req[p]>>]
    /\ res' = [res EXCEPT ![p] = "returned"]
    /\ switched' = TRUE
    /\ pc' = [pc EXCEPT ![p] = ReturnPc(p)]
    /\ UNCHANGED <<args, trace, op, req, config, pre, line, exitcode, written>>

-----------------------------------------------------------------------------
(* check_current_network *)

\* config = self.read_config(); current_network = config.get('network', 'Not set')
\* (a list has no get: AttributeError, caught nowhere)
Check(p) ==
    /\ pc[p] = "chk"
    /\ disk' = DiskAfterRead(disk)
    /\ LET c == read_config(disk)
       IN /\ config' = [config EXCEPT ![p] = c]
          /\ IF c.kind = "dict"
             THEN /\ out' = [out EXCEPT ![p] =
                                <<"current", Get(c.items, "network", NotSet)>>]
                  /\ res' = [res EXCEPT ![p] = "returned"]
                  /\ pc' = [pc EXCEPT ![p] = ReturnPc(p)]
                  /\ UNCHANGED exitcode
             ELSE /\ res' = [res EXCEPT ![p] = "raised"]
                  /\ exitcode' = [exitcode EXCEPT ![p] = 1]
                  /\ pc' = [pc EXCEPT ![p] = "done"]
                  /\ UNCHANGED out
    /\ UNCHANGED <<args, trace, op, req, pre, line, switched, written,
                   lastWriter>>

-----------------------------------------------------------------------------
(* interactive_mode *)

\* choice = input(...).strip() and the if / elif chain on it
Input(p) ==
    /\ pc[p] = "menu"
    /\ \E l \in Lines :
         LET target == MenuTarget(strip(l))
         IN /\ line' = [line EXCEPT ![p] = l]
            /\ IF target \in Valid
               THEN BeginOp(p, "switch", target, "sw_validate")
               ELSE IF target = "check"
               THEN BeginOp(p, "check", "none", "chk")
               ELSE /\ op' = [op EXCEPT ![p] = target]
                    /\ req' = [req EXCEPT ![p] = "none"]
                    /\ pre' = [pre EXCEPT ![p] = disk]
                    /\ config' = [config EXCEPT ![p] = NoConfig]
                    /\ res' = [res EXCEPT ![p] = "returned"]
                    /\ out' = [out EXCEPT ![p] =
                                  IF target = "invalid" THEN <<"invalid_choice">>
                                  ELSE NoOut]
                    /\ pc' = [pc EXCEPT ![p] =
                                  IF target = "invalid" THEN "menu" ELSE "done"]
    /\ UNCHANGED <<disk, args, trace, exitcode, switched, written, lastWriter>>

\* except KeyboardInterrupt: print("\nOperation cancelled."); break
Interrupt(p) ==
    /\ pc[p] = "menu"
    /\ line' = [line EXCEPT ![p] = NoLine]
    /\ op' = [op EXCEPT ![p] = "interrupt"]
    /\ out' = [out EXCEPT ![p] = <<"cancelled">>]
    /\ pc' = [pc EXCEPT ![p] = "done"]
    /\ UNCHANGED <<disk, args, trace, req, config, pre, res, exitcode, switched,
                   written, lastWriter>>

\* input() at the end of standard input: EOFError, caught nowhere
Eof(p) ==
    /\ pc[p] = "menu"
    /\ line' = [line EXCEPT ![p] = NoLine]
    /\ op' = [op EXCEPT ![p] = "eof"]
    /\ out' = [out EXCEPT ![p] = NoOut]
    /\ res' = [res EXCEPT ![p] = "raised"]
    /\ exitcode' = [exitcode EXCEPT ![p] = 1]
    /\ pc' = [pc EXCEPT ![p] = "done"]
    /\ UNCHANGED <<disk, args, trace, req, config, pre, switched, written,
                   lastWriter>>

-----------------------------------------------------------------------------
\* the program is over; the user may run it again on the file it left
Restart(p) ==
    /\ pc[p] = "done"
    /\ pc' = [pc EXCEPT ![p] = "idle"]
    /\ args' = [args EXCEPT ![p] = NoArgs]
    /\ trace' = [trace EXCEPT ![p] = <<>>]
    /\ op' = [op EXCEPT ![p] = "none"]
    /\ req' = [req EXCEPT ![p] = "none"]
    /\ config' = [config EXCEPT ![p] = NoConfig]
    /\ pre' = [pre EXCEPT ![p] = Missing]
    /\ line' = [line EXCEPT ![p] = NoLine]
    /\ out' = [out EXCEPT ![p] = NoOut]
    /\ res' = [res EXCEPT ![p] = "none"]
    /\ exitcode' = [exitcode EXCEPT ![p] = 0]
    /\ UNCHANGED <<disk, switched, written, lastWriter>>

\* one invocation at a time, no fault of the file system
Next ==
    \E p \in {1} :
        \/ Main(p)
        \/ Dispatch(p)
        \/ DirectSwitch(p)
        \/ SwValidate(p)
        \/ SwRead(p)
        \/ SwOpen(p)
        \/ SwDump(p)
        \/ Check(p)
        \/ Input(p)
        \/ Interrupt(p)
        \/ Eof(p)
        \/ Restart(p)

Spec == Init /\ [][Next]_vars

-----------------------------------------------------------------------------
(* A write that does not finish.  json.dump hands the text to the file piece *)
(* by piece; when it is cut short the with statement closes the file, which  *)
(* flushes the pieces written so far.                                        *)

\* what a dump cut short leaves: the file with the first k cells written
CutDump(p, k) ==
    File(Overlay(disk.text, SubSeq(json_dump(config[p].items), 1, k)))

\* json.dump or the close raises OSError (disk full): caught nowhere
DumpFail(p) ==
    /\ pc[p] = "sw_dump"
    /\ \E k \in 0..Len(config[p].items) : disk' = CutDump(p, k)
    /\ lastWriter' = p
    /\ res' = [res EXCEPT ![p] = "raised"]
    /\ exitcode' = [exitcode EXCEPT ![p] = 1]
    /\ pc' = [pc EXCEPT ![p] = "done"]
    /\ UNCHANGED <<args, trace, op, req, config, pre, line, out, switched,
                   written>>

\* Ctrl-C during json.dump: KeyboardInterrupt, which the interactive loop
\* catches (print, break, exit status 0) and nothing else does
DumpInterrupt(p) ==
    /\ pc[p] = "sw_dump"
    /\ \E k \in 0..Len(config[p].items) : disk' = CutDump(p, k)
    /\ lastWriter' = p
    /\ res' = [res EXCEPT ![p] = "interrupted"]
    /\ out' = [out EXCEPT ![p] = IF InLoop(p) THEN <<"cancelled">> ELSE NoOut]
    /\ exitcode' = [exitcode EXCEPT ![p] = IF InLoop(p) THEN 0 ELSE 130]
    /\ pc' = [pc EXCEPT ![p] = "done"]
    /\ UNCHANGED <<args, trace, op, req, config, pre, line, switched, written>>

\* one invocation at a time, on a file system where a write may be cut short
NextFault ==
    \/ Next
    \/ \E p \in {1} :
        \/ DumpFail(p)
        \/ DumpInterrupt(p)

SpecFault == Init /\ [][NextFault]_vars

-----------------------------------------------------------------------------
\* two invocations, each one call of switch_network, on the same file
NextConc ==
    \E p \in Procs :
        \/ DirectSwitch(p)
        \/ SwValidate(p)
        \/ SwRead(p)
        \/ SwOpen(p)
        \/ SwDump(p)

SpecConc == Init /\ [][NextConc]_vars

-----------------------------------------------------------------------------
(* The claims *)

NetworkOf(d) == Get(read_config(d).items, "network", NotSet)

IsObjectFile(d) == d.exists /\ IsObjectText(d.text)

\* C1 (as stated): a switch_network call with mainnet or testnet runs to its
\* end whatever the file held, and a read_config made right after it returns
\* a config whose network is the one requested.
C1_SwitchAlwaysSetsNetwork ==
    \A p \in Procs :
        (op[p] = "switch" /\ req[p] \in Valid /\ res[p] # "running")
            => /\ res[p] = "returned"
               /\ read_config(disk).kind = "dict"
               /\ NetworkOf(disk) = req[p]

\* C2: a switch_network call with a network other than mainnet and testnet
\* ends the process with exit status 1, reads nothing, and leaves the file
\* exactly as it was (a missing file stays missing).
C2_InvalidNetworkExitsUnchanged ==
    \A p \in Procs :
        (op[p] = "switch" /\ req[p] \notin Valid)
            => /\ disk = pre[p]
               /\ config[p] = NoConfig
               /\ pc[p] \in {"sw_validate", "done"}
               /\ pc[p] = "done"
                    => /\ exitcode[p] = 1
                       /\ res[p] = "sysexit"
                       /\ out[p] = <<"invalid_network", req[p]>>

C2_Witness ==
    \E p \in Procs :
        /\ op[p] = "switch"
        /\ req[p] = "invalidnet"
        /\ pc[p] = "done"
        /\ ~disk.exists

\* C3: a switch_network call that returns changes the network key alone:
\* every other key the config held before the call is in the file after it
\* with the same value, and the file holds no key it did not hold before.
\* (The config a file holds is what json.load makes of it.)
C3_SwitchKeepsOtherKeys ==
    \A p \in Procs :
        (op[p] = "switch" /\ res[p] = "returned")
            => LET before == read_config(pre[p]).items
                   after == read_config(disk)
               IN /\ after.kind = "dict"
                  /\ \A i \in 1..Len(before) :
                        before[i].k # "network"
                            => /\ HasKey(after.items, before[i].k)
                               /\ Get(after.items, before[i].k, "") = before[i].v
                  /\ \A j \in 1..Len(after.items) :
                        after.items[j].k # "network"
                            => HasKey(before, after.items[j].k)

C3_Witness ==
    \E p \in Procs :
        /\ op[p] = "switch"
        /\ res[p] = "returned"
        /\ pre[p] = File(<<PairCell("network", "mainnet"),
                           PairCell("extra", "keepme"), CloseCell>>)
        /\ req[p] = "testnet"
        /\ disk = File(<<PairCell("network", "testnet"),
                         PairCell("extra", "keepme"), CloseCell>>)

\* C4: check_current_network never writes the file: from its call on, the
\* file is what it was when the check was called, and a check of a missing
\* file reports "Not set" and leaves the file missing.
C4_CheckNeverWrites ==
    \A p \in Procs :
        op[p] = "check"
            => /\ disk = pre[p]
               /\ (res[p] = "returned" /\ ~pre[p].exists)
                    => /\ out[p] = <<"current", NotSet>>
                       /\ ~disk.exists

C4_Witness ==
    \E p \in Procs :
        /\ op[p] = "check"
        /\ res[p] = "returned"
        /\ ~pre[p].exists
        /\ out[p] = <<"current", NotSet>>

\* C5: main makes one call, chosen by the flags: switch_network when
\* --network is given (with --check or without it, and then no check runs),
\* else check_current_network when --check is given, else interactive_mode;
\* with a flag the call is made once, the process ends when it returns, and
\* the interactive loop is never entered.
C5_MainDispatchesOneMode ==
    \A p \in Procs :
        /\ Len(trace[p]) <= 1
        /\ pc[p] = "menu" => InLoop(p)
        /\ InLoop(p) => args[p] = NoArgs
        /\ args[p].network # "none"
            => /\ trace[p] \in {<<>>, <<"switch_network">>}
               /\ op[p] \in {"none", "switch"}
               /\ op[p] = "switch" => req[p] = args[p].network
               /\ pc[p] \notin {"menu", "chk"}
               /\ res[p] \notin {"none", "running"} => pc[p] = "done"
        /\ (args[p].network = "none" /\ args[p].check)
            => /\ trace[p] \in {<<>>, <<"check_current_network">>}
               /\ op[p] \in {"none", "check"}
               /\ pc[p] \in {"dispatch", "chk", "done"}
               /\ res[p] \notin {"none", "running"} => pc[p] = "done"
        /\ (pc[p] = "done" /\ args[p] = NoArgs /\ trace[p] # <<>>)
            => InLoop(p)

C5_Witness ==
    \E p \in Procs :
        /\ args[p] = [network |-> "mainnet", check |-> TRUE]
        /\ trace[p] = <<"switch_network">>
        /\ res[p] = "returned"
        /\ pc[p] = "done"
        /\ exitcode[p] = 0

\* C6 (as stated): at the interactive prompt every input line other than
\* "1", "2", "3" and "4" prints the invalid-choice message, stays at the
\* prompt and leaves the file unchanged.
C6_OtherLineReprompts ==
    \A p \in Procs :
        (line[p] # NoLine /\ line[p] \notin Choices)
            => /\ pc[p] = "menu"
               /\ op[p] = "invalid"
               /\ out[p] = <<"invalid_choice">>
               /\ disk = pre[p]

\* C6 (amended): at the interactive prompt every input line that, once its
\* leading and trailing blanks are stripped, is other than "1", "2", "3"
\* and "4" prints the invalid-choice message, stays at the prompt and leaves
\* the file unchanged.
C6_OtherStrippedLineReprompts ==
    \A p \in Procs :
        (line[p] # NoLine /\ strip(line[p]) \notin Choices)
            => /\ pc[p] = "menu"
               /\ op[p] = "invalid"
               /\ out[p] = <<"invalid_choice">>
               /\ disk = pre[p]

C6_Witness ==
    \E p \in Procs :
        /\ line[p] = <<"1", "2">>
        /\ pc[p] = "menu"
        /\ out[p] = <<"invalid_choice">>
        /\ switched

\* C7 (as stated): the interactive loop ends only on choice "4" or on an
\* interrupt at the prompt, both with exit status 0, and after choices "1",
\* "2" and "3" it is back at the prompt.
C7_LoopEndsOnlyOnExitOrInterrupt ==
    \A p \in Procs :
        InLoop(p)
            => /\ pc[p] = "done"
                    => (op[p] \in {"break", "interrupt"} /\ exitcode[p] = 0)
               /\ (op[p] \in {"switch", "check"} /\ res[p] # "running")
                    => pc[p] = "menu"

\* C8: once the program has written the file, every network value in it is
\* mainnet or testnet; once a switch_network call has run to its end the file
\* exists, a file that is a JSON object has mainnet or testnet as its network,
\* and a check reports "Not set" only of a file that is no JSON object.
C8_StoredNetworkIsValid ==
    /\ written
        => \A i \in 1..Len(disk.text) :
              (disk.text[i].t = "pair" /\ disk.text[i].k = "network")
                  => disk.text[i].v \in Valid
    /\ switched
        => /\ disk.exists
           /\ IsObjectFile(disk) => NetworkOf(disk) \in Valid
           /\ \A p \in Procs :
                 out[p] = <<"current", NotSet>> => ~IsObjectFile(disk)

C8_Witness ==
    \E p \in Procs :
        /\ switched
        /\ op[p] = "check"
        /\ out[p] = <<"current", NotSet>>

\* C9 (as stated): whenever no write is under way, a file the program has
\* written is one complete JSON object.
C9_WrittenFileIsJsonObject ==
    (written /\ \A p \in Procs : pc[p] # "sw_dump") => IsObjectFile(disk)

\* C10 (as stated): when two invocations have both run switch_network to its
\* end, the file is a JSON object whose network is the one requested by the
\* invocation that wrote last.
C10_LastWriterWins ==
    (\A p \in Procs : op[p] = "switch" /\ res[p] = "returned")
        => /\ IsObjectFile(disk)
           /\ NetworkOf(disk) = req[lastWriter]

====
